---- MODULE Spec2Model ----
(***************************************************************************)
(* Model of src/main.py: the batch creation of Octo Browser profiles.      *)
(*                                                                         *)
(* A text string is a sequence of tokens; the token " " is whitespace, a   *)
(* digit token is one decimal digit, any other token is a run of other     *)
(* characters.  The empty string is << >>.                                 *)
(***************************************************************************)
EXTENDS Integers, Sequences, FiniteSets, TLC

\* ------------------------------------------------------------------ bounds
MaxRows == 2        \* most data rows in a proxy file
MaxCount == 4       \* largest PROFILE_COUNT override tried

\* --------------------------------------------------------- program constants
RPM_THRESHOLD == 10
RPH_THRESHOLD == 10
SLEEP_MINUTE == 60
SLEEP_HOUR == 3600

DEFAULT_FP == [os |-> "win", screen |-> "1920x1080"]

\* ------------------------------------------------------------ text helpers
DigitTokens == <<"0", "1", "2", "3", "4", "5", "6", "7", "8", "9">>

IsDigit(c) == \E d \in 1..10 : DigitTokens[d] = c

DigitVal(c) == (CHOOSE d \in 1..10 : DigitTokens[d] = c) - 1

IsSpace(c) == c = " "

RECURSIVE lstrip(_)
lstrip(s) == IF s # << >> /\ IsSpace(Head(s)) THEN lstrip(Tail(s)) ELSE s

RECURSIVE rstrip(_)
rstrip(s) ==
    IF s # << >> /\ IsSpace(s[Len(s)]) THEN rstrip(SubSeq(s, 1, Len(s) - 1)) ELSE s

\* str.strip()
strip(s) == rstrip(lstrip(s))

RECURSIVE DigitsValue(_)
DigitsValue(s) ==
    IF s = << >> THEN 0 ELSE 10 * DigitsValue(SubSeq(s, 1, Len(s) - 1)) + DigitVal(s[Len(s)])

AllDigits(s) == s # << >> /\ \A i \in 1..Len(s) : IsDigit(s[i])

\* int(text): surrounding whitespace and one leading sign are accepted, then
\* decimal digits; anything else raises ValueError (ok = FALSE).
int(s) ==
    LET t == strip(s)
        signed == t # << >> /\ Head(t) \in {"-", "+"}
        body == IF signed THEN Tail(t) ELSE t
    IN  IF AllDigits(body)
        THEN [ok |-> TRUE,
              val |-> IF signed /\ Head(t) = "-" THEN 0 - DigitsValue(body)
                      ELSE DigitsValue(body)]
        ELSE [ok |-> FALSE, val |-> 0]

\* str(n) of an integer
RECURSIVE NatStr(_)
NatStr(n) ==
    IF n < 10 THEN <<DigitTokens[n + 1]>>
    ELSE NatStr(n \div 10) \o <<DigitTokens[(n % 10) + 1]>>

str(n) == IF n < 0 THEN <<"-">> \o NatStr(0 - n) ELSE NatStr(n)

\* ------------------------------------------------------------- the inputs
\* os.getenv results: set = FALSE is an unset variable.
Unset == [set |-> FALSE, val |-> << >>]
EnvVal(s) == [set |-> TRUE, val |-> s]

TokenEnvs == {Unset, EnvVal(<<"tok">>)}

CountEnvs ==
    {Unset, EnvVal(<<"-", "1">>), EnvVal(<<"x">>)} \cup {EnvVal(str(n)) : n \in 0..MaxCount}

\* Column names and rows of the proxy file.  The first row has padded fields,
\* the second a port that is not a number, the third an empty port field.
K_PORT == <<"port">>

ProxyRow(h, p) == (<<"host", " ">> :> h) @@ (K_PORT :> p)

RowPool ==
    { ProxyRow(<<" ", "h1">>, <<"8", "0", " ">>),
      ProxyRow(<<"h2">>, <<"abc">>),
      ProxyRow(<<"h3">>, << >>) }

RowSeqs == UNION { [1..n -> RowPool] : n \in 0..MaxRows }

\* exists: the path exists; sniffable: csv.Sniffer finds a delimiter.
ProxyFiles ==
    { [exists |-> FALSE, sniffable |-> FALSE, rows |-> << >>],
      [exists |-> TRUE, sniffable |-> FALSE, rows |-> << >>] }
    \cup { [exists |-> TRUE, sniffable |-> TRUE, rows |-> rs] : rs \in RowSeqs }

\* Cookie lists (JSON arrays of cookie objects) and cookie files.
CookieLists == { << >>, <<[name |-> "sid"]>> }

CookieKeys == { <<"0">>, <<"2">> }

CookieObjects == UNION { [ks -> CookieLists] : ks \in SUBSET CookieKeys }

\* json: "invalid" does not parse, "array" parses to a list, "object" to a dict.
CookieFiles ==
    { [exists |-> FALSE, json |-> "invalid", obj |-> << >>],
      [exists |-> TRUE, json |-> "invalid", obj |-> << >>],
      [exists |-> TRUE, json |-> "array", obj |-> << >>] }
    \cup { [exists |-> TRUE, json |-> "object", obj |-> o] : o \in CookieObjects }

\* ------------------------------------------------------------ load_proxies
\* p = {k.strip(): v.strip() for k, v in row.items() if v and k}
row_dict(row) ==
    LET kept == { k \in DOMAIN row : row[k] # << >> /\ k # << >> }
    IN  [ k2 \in { strip(k) : k \in kept } |->
            strip(row[CHOOSE k \in kept : strip(k) = k2]) ]

\* p["port"] = str(p["port"]) raises KeyError exactly when the key is missing;
\* str() of a text is the text itself.
row_ok(row) == K_PORT \in DOMAIN row_dict(row)

row_proxy(row) == [ k \in DOMAIN row_dict(row) |-> row_dict(row)[k] ]

\* Result of load_proxies: outcome "ok" with the list, "exit" (sys.exit) with
\* a message, or "raise" (uncaught csv.Error).  bad is the 1-based number of
\* the offending row for "invalid_row".
load_proxies(file) ==
    LET bads == { i \in 1..Len(file.rows) : ~row_ok(file.rows[i]) }
        none == [outcome |-> "ok", msg |-> "", bad |-> 0, proxies |-> << >>]
    IN  IF ~file.exists THEN [none EXCEPT !.outcome = "exit", !.msg = "not_found"]
        ELSE IF ~file.sniffable THEN [none EXCEPT !.outcome = "raise", !.msg = "csv.Error"]
        ELSE IF bads # {}
        THEN [none EXCEPT !.outcome = "exit", !.msg = "invalid_row",
                          !.bad = CHOOSE i \in bads : \A j \in bads : i <= j]
        ELSE IF file.rows = << >>
        THEN [none EXCEPT !.outcome = "exit", !.msg = "no_proxies"]
        ELSE [none EXCEPT !.proxies = [ i \in 1..Len(file.rows) |-> row_proxy(file.rows[i]) ]]

\* ------------------------------------------------------------ load_cookies
\* a loader without the isinstance check: any parsed value but a dict is
\* taken as an empty mapping
load_cookies_unchecked(file) ==
    IF ~file.exists THEN [outcome |-> "ok", msg |-> "", map |-> << >>]
    ELSE IF file.json = "invalid"
    THEN [outcome |-> "raise", msg |-> "JSONDecodeError", map |-> << >>]
    ELSE [outcome |-> "ok", msg |-> "", map |-> file.obj]

load_cookies(file) ==
    IF ~file.exists THEN [outcome |-> "ok", msg |-> "", map |-> << >>]
    ELSE IF file.json = "invalid"
    THEN [outcome |-> "raise", msg |-> "JSONDecodeError", map |-> << >>]
    ELSE IF file.json # "object"
    THEN [outcome |-> "exit", msg |-> "not_object", map |-> << >>]
    ELSE [outcome |-> "ok", msg |-> "", map |-> file.obj]

\* -------------------------------------------------------------------- main
\* total = PROFILE_COUNT if PROFILE_COUNT > 0 else len(proxies)
total_of(count, n) == IF count > 0 THEN count ELSE n

\* itertools.cycle(iterable): src is the list being consumed, k the number of
\* its elements consumed so far, saved the copy kept of them, j the position
\* in the copy once src is exhausted.
cycle(list) == [src |-> list, k |-> 0, saved |-> << >>, j |-> 0]

cycle_value(c) == IF c.k < Len(c.src) THEN c.src[c.k + 1] ELSE c.saved[c.j + 1]

\* a cycle that is read but never advanced
cycle_no_advance(c) == c

\* the iterator after next(proxy_cycle)
cycle_advance(c) ==
    IF c.k < Len(c.src)
    THEN [c EXCEPT !.k = c.k + 1, !.saved = Append(c.saved, c.src[c.k + 1])]
    ELSE [c EXCEPT !.j = (c.j + 1) % Len(c.saved)]

\* title = f"BatchProfile_{idx}"
title_of(i) == <<"BatchProfile_">> \o str(i)

\* the key looked up in cookies_map: str(idx - 1)
cookie_key(i) == str(i - 1)

\* cookies_map.get(key): found = FALSE is None
dict_get(map, key) ==
    IF key \in DOMAIN map THEN [found |-> TRUE, val |-> map[key]]
    ELSE [found |-> FALSE, val |-> << >>]

\* `if cookies is not None:` instead of `if cookies:`
truthy_when_found(g) == g.found

\* `if cookies:` is true for a list that is not empty
truthy(g) == g.found /\ g.val # << >>

build_payload(i, proxy, cookies) ==
    IF truthy(cookies)
    THEN [title |-> title_of(i), proxy |-> proxy, fingerprint |-> DEFAULT_FP,
          cookies |-> cookies.val]
    ELSE [title |-> title_of(i), proxy |-> proxy, fingerprint |-> DEFAULT_FP]

\* an index that is not advanced once the first request has been made
range_repeat(i) == IF i = 0 THEN 1 ELSE i

\* the next value of idx in range(1, total + 1)
range_next(i) == i + 1

\* ---------------------------------------------------------------- api_post
\* A response: its status code, the two rate-limit headers (set = FALSE is an
\* absent header) and the shape of its body.
Statuses == {200, 304, 429}

HeaderVals == {Unset, EnvVal(<<"5">>), EnvVal(<<"1", "0">>), EnvVal(<<"x">>)}

\* "ok" is {"data": {"uuid": ...}}, "nouuid" is {"data": {}}, "nodata" is {},
\* "notjson" is a body that is no JSON document.
Bodies == {"ok", "nouuid", "nodata", "notjson"}

Responses ==
    { [status |-> s, rpm |-> m, rph |-> h, body |-> b] :
        s \in Statuses, m \in HeaderVals, h \in HeaderVals, b \in Bodies }

NoResp == [status |-> 0, rpm |-> Unset, rph |-> Unset, body |-> "none"]

\* only server errors raise
raise_only_5xx(status) == 500 <= status /\ status < 600

\* resp.raise_for_status() raises HTTPError for 4xx and 5xx
raise_for_status(status) == 400 <= status /\ status < 600

\* int(response.headers.get(name, 0))
header_int(h) == IF h.set THEN int(h.val) ELSE [ok |-> TRUE, val |-> 0]

\* What follows check_limits: resp.json()["data"] in api_post, data['uuid']
\* in main.  The result is the console line or the exception that escapes.
after_limits(r) ==
    IF r.body = "notjson" THEN [kind |-> "raise", what |-> "JSONDecodeError"]
    ELSE IF r.body \in {"nodata", "nouuid"} THEN [kind |-> "raise", what |-> "KeyError"]
    ELSE [kind |-> "created", what |-> ""]

NoOut == [idx |-> 0, kind |-> "none"]

VARIABLES
    pc,             \* where the process is
    tokenEnv,       \* OCTO_API_TOKEN in the environment
    countEnv,       \* PROFILE_COUNT in the environment
    proxyFile,      \* the proxy CSV file
    cookieFile,     \* the cookie JSON file
    PROFILE_COUNT,
    proxies,
    cookies_map,
    total,
    proxy_cycle,
    idx,
    sent,           \* payloads of the POST requests issued so far, in order
    resp,           \* the response to the last request, NoResp while none has arrived
    slept,          \* durations of the time.sleep calls finished since resp arrived
    out,            \* the last per-profile console line
    err             \* why the process ended, when it ended early

vars == <<pc, tokenEnv, countEnv, proxyFile, cookieFile, PROFILE_COUNT, proxies,
          cookies_map, total, proxy_cycle, idx, sent, resp, slept, out, err>>

inputs == <<tokenEnv, countEnv, proxyFile, cookieFile>>

Init ==
    /\ pc = "config"
    /\ tokenEnv \in TokenEnvs
    /\ countEnv \in CountEnvs
    /\ proxyFile \in ProxyFiles
    /\ cookieFile \in CookieFiles
    /\ PROFILE_COUNT = 0
    /\ proxies = << >>
    /\ cookies_map = << >>
    /\ total = 0
    /\ proxy_cycle = cycle(<< >>)
    /\ idx = 0
    /\ sent = << >>
    /\ resp = NoResp
    /\ slept = << >>
    /\ out = NoOut
    /\ err = ""

\* Module level, lines 32-40: the token and the count override.
Config ==
    /\ pc = "config"
    /\ LET n == int(IF countEnv.set THEN countEnv.val ELSE <<"0">>)
       IN  IF ~tokenEnv.set \/ tokenEnv.val = << >> THEN
               /\ pc' = "exited"
               /\ err' = "no_token"
               /\ UNCHANGED PROFILE_COUNT
           ELSE IF ~n.ok THEN
               /\ pc' = "crashed"
               /\ err' = "ValueError"
               /\ UNCHANGED PROFILE_COUNT
           ELSE
               /\ pc' = "load_proxies"
               /\ PROFILE_COUNT' = n.val
               /\ UNCHANGED err
    /\ UNCHANGED <<inputs, proxies, cookies_map, total, proxy_cycle, idx, sent, resp,
                   slept, out>>

\* main, line 125
LoadProxies ==
    /\ pc = "load_proxies"
    /\ LET r == load_proxies(proxyFile)
       IN  /\ pc' = IF r.outcome = "ok" THEN "load_cookies"
                    ELSE IF r.outcome = "exit" THEN "exited" ELSE "crashed"
           /\ err' = r.msg
           /\ proxies' = r.proxies
    /\ UNCHANGED <<inputs, PROFILE_COUNT, cookies_map, total, proxy_cycle, idx, sent,
                   resp, slept, out>>

\* main, lines 126-130
LoadCookies ==
    /\ pc = "load_cookies"
    /\ LET r == load_cookies(cookieFile)
       IN  IF r.outcome = "ok" THEN
               /\ pc' = "loop"
               /\ cookies_map' = r.map
               /\ total' = total_of(PROFILE_COUNT, Len(proxies))
               /\ proxy_cycle' = cycle(proxies)
               /\ UNCHANGED err
           ELSE
               /\ pc' = IF r.outcome = "exit" THEN "exited" ELSE "crashed"
               /\ err' = r.msg
               /\ UNCHANGED <<cookies_map, total, proxy_cycle>>
    /\ UNCHANGED <<inputs, PROFILE_COUNT, proxies, idx, sent, resp, slept, out>>

\* main, lines 132-146 up to the POST of requests.post
Send ==
    /\ pc = "loop"
    /\ idx < total
    /\ LET i == range_next(idx)
       IN  /\ idx' = i
           /\ proxy_cycle' = cycle_advance(proxy_cycle)
           /\ sent' = Append(sent, build_payload(i, cycle_value(proxy_cycle),
                                                 dict_get(cookies_map, cookie_key(i))))
    /\ pc' = "await"
    /\ resp' = NoResp
    /\ slept' = << >>
    /\ UNCHANGED <<inputs, PROFILE_COUNT, proxies, cookies_map, total, out, err>>

\* range(1, total + 1) is exhausted: main returns
Finish ==
    /\ pc = "loop"
    /\ idx >= total
    /\ pc' = "done"
    /\ UNCHANGED <<inputs, PROFILE_COUNT, proxies, cookies_map, total, proxy_cycle, idx,
                   sent, resp, slept, out, err>>

\* requests.post raises ConnectionError or Timeout: nothing in main catches it
TransportError ==
    /\ pc = "await"
    /\ pc' = "crashed"
    /\ err' = "ConnectionError"
    /\ UNCHANGED <<inputs, PROFILE_COUNT, proxies, cookies_map, total, proxy_cycle, idx,
                   sent, resp, slept, out>>

\* The end of an iteration once check_limits has returned (lines 100, 147).
Complete(r) ==
    LET a == after_limits(r)
    IN  IF a.kind = "created" THEN
            /\ pc' = "loop"
            /\ out' = [idx |-> idx, kind |-> "created"]
            /\ UNCHANGED err
        ELSE
            /\ pc' = "crashed"
            /\ err' = a.what
            /\ UNCHANGED out

\* requests.post returns r: lines 97-99 and check_limits up to its first sleep
Receive ==
    /\ pc = "await"
    /\ \E r \in Responses :
        /\ resp' = r
        /\ slept' = << >>
        /\ IF raise_for_status(r.status) THEN
               /\ pc' = "loop"
               /\ out' = [idx |-> idx, kind |-> "http_error"]
               /\ UNCHANGED err
           ELSE IF ~header_int(r.rpm).ok \/ ~header_int(r.rph).ok THEN
               /\ pc' = "crashed"
               /\ err' = "ValueError"
               /\ UNCHANGED out
           ELSE IF header_int(r.rpm).val < RPM_THRESHOLD THEN
               /\ pc' = "sleep60"
               /\ UNCHANGED <<out, err>>
           ELSE IF header_int(r.rph).val < RPH_THRESHOLD THEN
               /\ pc' = "sleep3600"
               /\ UNCHANGED <<out, err>>
           ELSE Complete(r)
    /\ UNCHANGED <<inputs, PROFILE_COUNT, proxies, cookies_map, total, proxy_cycle, idx,
                   sent>>

\* time.sleep(60) returns (line 117)
Wake60 ==
    /\ pc = "sleep60"
    /\ slept' = Append(slept, SLEEP_MINUTE)
    /\ IF header_int(resp.rph).val < RPH_THRESHOLD THEN
           /\ pc' = "sleep3600"
           /\ UNCHANGED <<out, err>>
       ELSE Complete(resp)
    /\ UNCHANGED <<inputs, PROFILE_COUNT, proxies, cookies_map, total, proxy_cycle, idx,
                   sent, resp>>

\* time.sleep(3600) returns (line 120)
Wake3600 ==
    /\ pc = "sleep3600"
    /\ slept' = Append(slept, SLEEP_HOUR)
    /\ Complete(resp)
    /\ UNCHANGED <<inputs, PROFILE_COUNT, proxies, cookies_map, total, proxy_cycle, idx,
                   sent, resp>>

Next ==
    \/ Config
    \/ LoadProxies
    \/ LoadCookies
    \/ Send
    \/ Finish
    \/ TransportError
    \/ Receive
    \/ Wake60
    \/ Wake3600

Spec == Init /\ [][Next]_vars

\* ================================================================= claims
Loaded == total > 0

\* the proxy the round-robin law gives request k
ProxyAt(k) == proxies[((k - 1) % Len(proxies)) + 1]

HasCookies(p) == "cookies" \in DOMAIN p

EntryAt(k) == str(k - 1) \in DOMAIN cookies_map

\* C1: with P >= 1 loaded proxies and every request answered by an HTTP
\* response, a run that has ended has issued exactly T requests, T being
\* PROFILE_COUNT when it is an override (> 0) and P otherwise; without an
\* override request k carries the k-th proxy of the file.
C1_ExactlyTotalRequests ==
    (Loaded /\ pc \in {"done", "crashed"} /\ err # "ConnectionError") =>
        /\ Len(sent) = (IF PROFILE_COUNT > 0 THEN PROFILE_COUNT ELSE Len(proxies))
        /\ PROFILE_COUNT <= 0 =>
               \A k \in 1..Len(sent) : sent[k].proxy = row_proxy(proxyFile.rows[k])

\* C2: the proxy in the payload of request i is proxies[(i-1) mod P], for
\* every request issued, whatever happened to the requests before it.
C2_ProxyRoundRobin == \A k \in 1..Len(sent) : sent[k].proxy = ProxyAt(k)

C2_Witness ==
    /\ Len(sent) = 4
    /\ Len(proxies) = 2
    /\ proxies[1] # proxies[2]
    /\ out = [idx |-> 3, kind |-> "http_error"]

\* C3 as stated: request i has a cookies field exactly when the cookie map has
\* an entry at key str(i-1), and the field is that entry.
C3_CookiesWhenEntryExists ==
    \A k \in 1..Len(sent) :
        /\ HasCookies(sent[k]) <=> EntryAt(k)
        /\ HasCookies(sent[k]) => sent[k].cookies = cookies_map[str(k - 1)]

\* C3 amended: request i has a cookies field exactly when the cookie map has
\* an entry at key str(i-1) that is not empty, and the field is that entry;
\* every other request has no cookies field.
C3_CookiesWhenEntryNonEmpty ==
    \A k \in 1..Len(sent) :
        /\ HasCookies(sent[k]) <=> (EntryAt(k) /\ cookies_map[str(k - 1)] # << >>)
        /\ HasCookies(sent[k]) => sent[k].cookies = cookies_map[str(k - 1)]

C3_Witness ==
    \E k, e \in 1..Len(sent) :
        /\ HasCookies(sent[k])
        /\ EntryAt(e) /\ cookies_map[str(e - 1)] = << >> /\ ~HasCookies(sent[e])
        /\ \E n \in 1..Len(sent) : ~EntryAt(n)

\* C4: a data row whose port is not a number ends the process in
\* load_proxies, and no request is ever issued in that run.
NonNumericPort(row) == row[K_PORT] # << >> /\ ~int(row[K_PORT]).ok

C4_NonNumericPortStopsRun ==
    (\E i \in 1..Len(proxyFile.rows) : NonNumericPort(proxyFile.rows[i])) =>
        /\ sent = << >>
        /\ pc \in {"config", "load_proxies", "exited", "crashed"}

\* The payload the claims expect for request n, with a cookies field when
\* withCookies holds.
ExpectedPayload(n, withCookies) ==
    IF withCookies
    THEN [title |-> <<"BatchProfile_">> \o str(n), proxy |-> ProxyAt(n),
          fingerprint |-> DEFAULT_FP, cookies |-> cookies_map[str(n - 1)]]
    ELSE [title |-> <<"BatchProfile_">> \o str(n), proxy |-> ProxyAt(n),
          fingerprint |-> DEFAULT_FP]

HeaderBelow(h, n) == h.set /\ int(h.val).ok /\ int(h.val).val < n

HeaderAtLeast(h, n) == h.set /\ int(h.val).ok /\ int(h.val).val >= n

Pauses == { slept[i] : i \in 1..Len(slept) }

C6_PauseAfterEveryLowResponse ==
    (pc = "loop" /\ resp # NoResp /\ idx < total) =>
        /\ HeaderBelow(resp.rpm, 10) => 60 \in Pauses
        /\ HeaderBelow(resp.rph, 10) => 3600 \in Pauses
        /\ (HeaderBelow(resp.rpm, 10) /\ HeaderBelow(resp.rph, 10)) => slept = <<60, 3600>>
        /\ (HeaderAtLeast(resp.rpm, 10) /\ HeaderAtLeast(resp.rph, 10)) => slept = << >>

\* C7: each fatal condition of the loaders (no proxy file, no usable row, a
\* row that cannot be parsed, a cookie file that is no object) ends the run
\* with no request sent; a run that exits has sent nothing; with no cookie
\* file the map is empty, the loaders do not exit, and no request has a
\* cookies field.
FatalStartupInput ==
    \/ ~proxyFile.exists
    \/ /\ proxyFile.sniffable
       /\ \/ proxyFile.rows = << >>
          \/ \E i \in 1..Len(proxyFile.rows) : proxyFile.rows[i][K_PORT] = << >>
    \/ cookieFile.exists /\ cookieFile.json = "array"

C7_FatalStartupSendsNothing ==
    /\ FatalStartupInput =>
           (sent = << >> /\ pc \in {"config", "load_proxies", "load_cookies", "exited", "crashed"})
    /\ pc = "exited" => sent = << >>
    /\ (~cookieFile.exists /\ proxies # << >>) =>
           /\ pc # "exited"
           /\ pc # "load_cookies" => Loaded
           /\ cookies_map = << >>
           /\ \A k \in 1..Len(sent) : ~HasCookies(sent[k])

C7_Witness == pc = "exited" /\ err = "not_object" /\ proxies # << >> /\ sent = << >>

\* C8: no failure of the attempt for profile i < T aborts the loop: while
\* request i < T is being made or handled, no step ends the process.
C8_FailureNeverAbortsLoop ==
    [][ (pc \in {"await", "sleep60", "sleep3600"} /\ idx < total) => pc' # "crashed" ]_vars

\* C9: a rate-limit header of a successful response that is absent or cannot
\* be parsed counts as 0: check_limits does not fail and takes the pause of
\* that header.
HeaderUnusable(h) == ~h.set \/ ~int(h.val).ok

C9_UnusableHeaderCountsAsZero ==
    [][ (pc = "await" /\ resp' # NoResp /\ resp'.status \in 200..299) =>
            /\ HeaderUnusable(resp'.rpm) => pc' = "sleep60"
            /\ (HeaderUnusable(resp'.rph) /\ HeaderAtLeast(resp'.rpm, 10)) => pc' = "sleep3600"
      ]_vars

\* C10: requests are issued one at a time in the order 1, 2, ...: a request
\* is added only from the top of the loop, it is the request of the next
\* index, the earlier ones are never re-sent, and the request before it has
\* been answered and its outcome printed.
C10_SequentialOnePostPerIndex ==
    [][ sent' # sent =>
            /\ pc = "loop" /\ pc' = "await"
            /\ Len(sent') = Len(sent) + 1
            /\ SubSeq(sent', 1, Len(sent)) = sent
            /\ sent'[Len(sent')].title = <<"BatchProfile_">> \o str(Len(sent) + 1)
            /\ \A k \in 1..Len(sent) : sent[k].title # sent'[Len(sent')].title
            /\ Len(sent) > 0 => (resp # NoResp /\ out.idx = Len(sent))
      ]_vars

C10_Witness ==
    /\ pc = "loop"
    /\ idx = 2
    /\ idx < total
    /\ Len(sent) = 2
    /\ slept = <<60, 3600>>
    /\ out = [idx |-> 2, kind |-> "created"]
====
